---- MODULE Spec2Model ----
(***************************************************************************)
(* The Query Log component (QueryLog) of the web interface: the            *)
(* fetch/pagination controller behind the log table.                       *)
(*                                                                         *)
(*   state          the React component state (QueryLogState)              *)
(*   updateHandler  the CancelablePromise of the most recent request       *)
(*   requests       every History API request issued so far, with the      *)
(*                  query it carried and what became of it                 *)
(*   mounted        FALSE once componentWillUnmount has run                *)
(*   epoch          the number of filter changes so far (the filter epoch) *)
(*   merges         the responses merged into the state, in merge order    *)
(*   trigger        the handler that ran last, the request it issued or    *)
(*                  completed (0 when none) and the arguments it was       *)
(*                  handed: the filter list, or the page and page size     *)
(*   timers         the pending calls of the debounced props that render   *)
(*                  hands to the table (onFetchData, onFilteredChange)     *)
(*   bursts         for each of the two props, the burst of invocations    *)
(*                  in progress: its latest arguments, and how often and   *)
(*                  with what arguments the wrapped function has run       *)
(***************************************************************************)
EXTENDS Integers, Sequences, FiniteSets, TLC

VARIABLES state, updateHandler, requests, mounted, epoch, merges, trigger,
          timers, bursts

vars == <<state, updateHandler, requests, mounted, epoch, merges, trigger,
          timers, bursts>>

(***************************************************************************)
(* Bounds of the model.                                                    *)
(***************************************************************************)
\* History API calls issued in one behaviour
MaxRequests == 2
\* filter changes (onFilteredChange executions) in one behaviour
MaxEpochs == 1
\* records in one History API response
MaxPageLen == 1
\* largest page index the table asks for
MaxPage == 1
\* largest page size the table asks for
MaxPageSize == 2
\* entries in a filter list handed to parseFilters
MaxFilters == 2
\* History API calls issued in one behaviour of the prefetch scenario
MaxPrefetchRequests == 3
\* pending timers of one debounced prop
MaxTimers == 2
\* the page the table keeps asking for in the prefetch scenario
PrefetchPage == 0

(***************************************************************************)
(* Values.                                                                 *)
(***************************************************************************)
\* the JavaScript null of `cursor: null | string`
null == "<null>"

\* the cursors the History API hands out: request i is answered with the
\* continuation cursor CursorNames[i], or with null at the end of the data
CursorNames == <<"c1", "c2", "c3", "c4", "c5", "c6">>

Cursors(i) == {CursorNames[i], null}

\* dateRanges.Today as instants in milliseconds
Today == [start |-> 86400000, end |-> 86403999]

\* the state.filters set by the constructor
InitialFilters == << [id |-> "time", value |-> Today] >>

\* the filter lists the table hands to onFilteredChange
FilterLists ==
    { InitialFilters,
      << [id |-> "time", value |-> Today], [id |-> "domain", value |-> "a.com"] >>,
      << [id |-> "time", value |-> Today], [id |-> "status", value |-> "blocked"],
         [id |-> "queryType", value |-> "2"] >> }

(***************************************************************************)
(* parseFilters: the table filters converted for use by the API.           *)
(***************************************************************************)
\* the option values of a selectionFilter: the index of the item
DecimalStrings == <<"0", "1", "2", "3", "4", "5", "6">>

\* parseInt on the decimal strings a select option can carry
parseInt(s) == (CHOOSE i \in 1..Len(DecimalStrings) : DecimalStrings[i] = s) - 1

\* `filters.k = v` on the object under construction
Assign(filters, k, v) == (k :> v) @@ filters

\* the switch with the values of the "allowed" and "blocked" cases exchanged
parseFilterSwapsBlocked(filters, filter) ==
    CASE filter.id = "time" ->
            Assign(Assign(filters, "from", filter.value.start \div 1000),
                   "until", filter.value.end \div 1000)
      [] filter.id = "queryType" ->
            IF filter.value = "all" THEN filters
            ELSE Assign(filters, "query_type", parseInt(filter.value) + 1)
      [] filter.id = "domain" ->
            IF filter.value = "" THEN filters
            ELSE Assign(filters, "domain", filter.value)
      [] filter.id = "client" ->
            IF filter.value = "" THEN filters
            ELSE Assign(filters, "client", filter.value)
      [] filter.id = "status" ->
            CASE filter.value = "all" -> filters
              [] filter.value = "allowed" -> Assign(filters, "blocked", TRUE)
              [] filter.value = "blocked" -> Assign(filters, "blocked", FALSE)
              [] OTHER -> Assign(filters, "status", filter.value)
      [] filter.id = "dnssec" ->
            IF filter.value = "all" THEN filters
            ELSE Assign(filters, "dnssec", filter.value)
      [] filter.id = "reply" ->
            IF filter.value = "all" THEN filters
            ELSE Assign(filters, "reply", filter.value)
      [] OTHER -> filters

\* the switch with a default case that passes the entry on under its own id
parseFilterPassesUnknown(filters, filter) ==
    CASE filter.id = "time" ->
            Assign(Assign(filters, "from", filter.value.start \div 1000),
                   "until", filter.value.end \div 1000)
      [] filter.id = "queryType" ->
            IF filter.value = "all" THEN filters
            ELSE Assign(filters, "query_type", parseInt(filter.value) + 1)
      [] filter.id = "domain" ->
            IF filter.value = "" THEN filters
            ELSE Assign(filters, "domain", filter.value)
      [] filter.id = "client" ->
            IF filter.value = "" THEN filters
            ELSE Assign(filters, "client", filter.value)
      [] filter.id = "status" ->
            CASE filter.value = "all" -> filters
              [] filter.value = "allowed" -> Assign(filters, "blocked", FALSE)
              [] filter.value = "blocked" -> Assign(filters, "blocked", TRUE)
              [] OTHER -> Assign(filters, "status", filter.value)
      [] filter.id = "dnssec" ->
            IF filter.value = "all" THEN filters
            ELSE Assign(filters, "dnssec", filter.value)
      [] filter.id = "reply" ->
            IF filter.value = "all" THEN filters
            ELSE Assign(filters, "reply", filter.value)
      [] OTHER -> Assign(filters, filter.id, filter.value)

\* the switch without the `+ 1` of the queryType case
parseFilterZeroBased(filters, filter) ==
    CASE filter.id = "time" ->
            Assign(Assign(filters, "from", filter.value.start \div 1000),
                   "until", filter.value.end \div 1000)
      [] filter.id = "queryType" ->
            IF filter.value = "all" THEN filters
            ELSE Assign(filters, "query_type", parseInt(filter.value))
      [] filter.id = "domain" ->
            IF filter.value = "" THEN filters
            ELSE Assign(filters, "domain", filter.value)
      [] filter.id = "client" ->
            IF filter.value = "" THEN filters
            ELSE Assign(filters, "client", filter.value)
      [] filter.id = "status" ->
            CASE filter.value = "all" -> filters
              [] filter.value = "allowed" -> Assign(filters, "blocked", FALSE)
              [] filter.value = "blocked" -> Assign(filters, "blocked", TRUE)
              [] OTHER -> Assign(filters, "status", filter.value)
      [] filter.id = "dnssec" ->
            IF filter.value = "all" THEN filters
            ELSE Assign(filters, "dnssec", filter.value)
      [] filter.id = "reply" ->
            IF filter.value = "all" THEN filters
            ELSE Assign(filters, "reply", filter.value)
      [] OTHER -> filters

\* the switch with a client case that writes the key of the domain case
parseFilterClientAsDomain(filters, filter) ==
    CASE filter.id = "time" ->
            Assign(Assign(filters, "from", filter.value.start \div 1000),
                   "until", filter.value.end \div 1000)
      [] filter.id = "queryType" ->
            IF filter.value = "all" THEN filters
            ELSE Assign(filters, "query_type", parseInt(filter.value) + 1)
      [] filter.id = "domain" ->
            IF filter.value = "" THEN filters
            ELSE Assign(filters, "domain", filter.value)
      [] filter.id = "client" ->
            IF filter.value = "" THEN filters
            ELSE Assign(filters, "domain", filter.value)
      [] filter.id = "status" ->
            CASE filter.value = "all" -> filters
              [] filter.value = "allowed" -> Assign(filters, "blocked", FALSE)
              [] filter.value = "blocked" -> Assign(filters, "blocked", TRUE)
              [] OTHER -> Assign(filters, "status", filter.value)
      [] filter.id = "dnssec" ->
            IF filter.value = "all" THEN filters
            ELSE Assign(filters, "dnssec", filter.value)
      [] filter.id = "reply" ->
            IF filter.value = "all" THEN filters
            ELSE Assign(filters, "reply", filter.value)
      [] OTHER -> filters

\* one iteration of the for loop: the switch over filter.id
parseFilter(filters, filter) ==
    CASE filter.id = "time" ->
            Assign(Assign(filters, "from", filter.value.start \div 1000),
                   "until", filter.value.end \div 1000)
      [] filter.id = "queryType" ->
            IF filter.value = "all" THEN filters
            ELSE Assign(filters, "query_type", parseInt(filter.value) + 1)
      [] filter.id = "domain" ->
            IF filter.value = "" THEN filters
            ELSE Assign(filters, "domain", filter.value)
      [] filter.id = "client" ->
            IF filter.value = "" THEN filters
            ELSE Assign(filters, "client", filter.value)
      [] filter.id = "status" ->
            CASE filter.value = "all" -> filters
              [] filter.value = "allowed" -> Assign(filters, "blocked", FALSE)
              [] filter.value = "blocked" -> Assign(filters, "blocked", TRUE)
              [] OTHER -> Assign(filters, "status", filter.value)
      [] filter.id = "dnssec" ->
            IF filter.value = "all" THEN filters
            ELSE Assign(filters, "dnssec", filter.value)
      [] filter.id = "reply" ->
            IF filter.value = "all" THEN filters
            ELSE Assign(filters, "reply", filter.value)
      [] OTHER -> filters

RECURSIVE parseFrom(_, _, _)
parseFrom(filters, tableFilters, i) ==
    IF i > Len(tableFilters) THEN filters
    ELSE parseFrom(parseFilter(filters, tableFilters[i]), tableFilters, i + 1)

\* the empty object `{}`
EmptyObject == [k \in {} |-> null]

parseFilters(tableFilters) == parseFrom(EmptyObject, tableFilters, 1)

(***************************************************************************)
(* The component.                                                          *)
(***************************************************************************)
\* this.setState(update): the fields of update replace those of the state;
\* React drops the update of a component that is no longer mounted
setState(update) ==
    IF mounted
    THEN [k \in DOMAIN state |-> IF k \in DOMAIN update THEN update[k] ELSE state[k]]
    ELSE state

\* the argument of api.getHistory: { cursor, ...parseFilters(filters) }
HistoryQuery(cursor, filters) == parseFilters(filters) @@ ("cursor" :> cursor)

\* makeCancelable(promise): a handle that has not been cancelled
makeCancelable(query) ==
    [ query       |-> query,
      hasCanceled |-> FALSE,
      status      |-> "pending",
      data        |-> [history |-> <<>>, cursor |-> null],
      epoch       |-> epoch,
      merged      |-> Len(merges) ]

\* handle.cancel()
cancel(handle) == [handle EXCEPT !.hasCanceled = TRUE]

Pending == { i \in 1..Len(requests) : requests[i].status = "pending" }

\* no debounced call is pending after the first render
NoTimers == [onFetchData |-> <<>>, onFilteredChange |-> <<>>]

\* no prop has been invoked yet
NoBursts ==
    [ onFetchData      |-> [runs |-> 0, invoked |-> <<>>, ran |-> <<>>],
      onFilteredChange |-> [runs |-> 0, invoked |-> <<>>, ran |-> <<>>] ]

Init ==
    /\ state = [ history        |-> <<>>,
                 cursor         |-> null,
                 loading        |-> FALSE,
                 atEnd          |-> FALSE,
                 filtersChanged |-> FALSE,
                 filters        |-> InitialFilters ]
    /\ updateHandler = 0
    /\ requests = <<>>
    /\ mounted = TRUE
    /\ epoch = 0
    /\ merges = <<>>
    /\ trigger = [op |-> "constructor", request |-> 0, filters |-> <<>>,
                    page |-> 0, pageSize |-> 0]
    /\ timers = NoTimers
    /\ bursts = NoBursts

\* fetchQueries without the `this.state.loading` half of its first check
fetchQueriesIgnoresLoading(page, pageSize) ==
    \/ state.atEnd
    \/ /\ ~state.filtersChanged
       /\ Len(state.history) >= (page + 2) * pageSize

\* fetchQueries asking for the requested page only, not for the next one
fetchQueriesNoLookAhead(page, pageSize) ==
    \/ state.atEnd \/ state.loading
    \/ /\ ~state.filtersChanged
       /\ Len(state.history) >= (page + 1) * pageSize

\* the two early returns of fetchQueries
fetchQueriesReturnsEarly(page, pageSize) ==
    \/ state.atEnd \/ state.loading
    \/ /\ ~state.filtersChanged
       /\ Len(state.history) >= (page + 2) * pageSize

\* fetchQueries({ page, pageSize }), called by the table
\* (the specifications bound the number of calls it may issue)
fetchQueries(page, pageSize) ==
    /\ mounted
    /\ IF fetchQueriesReturnsEarly(page, pageSize)
       THEN /\ trigger' = [op |-> "fetchQueries", request |-> 0, filters |-> <<>>,
                             page |-> page, pageSize |-> pageSize]
            /\ UNCHANGED <<state, updateHandler, requests>>
       ELSE /\ state' = setState([loading |-> TRUE])
            /\ requests' = Append(requests,
                                  makeCancelable(HistoryQuery(state.cursor, state.filters)))
            /\ updateHandler' = Len(requests) + 1
            /\ trigger' = [op |-> "fetchQueries", request |-> Len(requests) + 1, filters |-> <<>>,
                             page |-> page, pageSize |-> pageSize]
    /\ UNCHANGED <<mounted, epoch, merges>>

\* onFilteredChange without the `history: []` of its update
onFilteredChangeKeepsHistory(filters) ==
    /\ mounted
    /\ epoch < MaxEpochs
    /\ state' = setState([ filters        |-> filters,
                           filtersChanged |-> TRUE,
                           cursor         |-> null,
                           atEnd          |-> FALSE,
                           loading        |-> FALSE ])
    /\ epoch' = epoch + 1
    /\ trigger' = [op |-> "onFilteredChange", request |-> 0, filters |-> filters,
                     page |-> 0, pageSize |-> 0]
    /\ UNCHANGED <<updateHandler, requests, mounted, merges>>

\* onFilteredChange without the `loading: false` of its update
onFilteredChangeKeepsLoading(filters) ==
    /\ mounted
    /\ epoch < MaxEpochs
    /\ state' = setState([ filters        |-> filters,
                           filtersChanged |-> TRUE,
                           cursor         |-> null,
                           atEnd          |-> FALSE,
                           history        |-> <<>> ])
    /\ epoch' = epoch + 1
    /\ trigger' = [op |-> "onFilteredChange", request |-> 0, filters |-> filters,
                     page |-> 0, pageSize |-> 0]
    /\ UNCHANGED <<updateHandler, requests, mounted, merges>>

\* the onFilteredChange callback of render
onFilteredChange(filters) ==
    /\ mounted
    /\ epoch < MaxEpochs
    /\ state' = setState([ filters        |-> filters,
                           filtersChanged |-> TRUE,
                           cursor         |-> null,
                           atEnd          |-> FALSE,
                           loading        |-> FALSE,
                           history        |-> <<>> ])
    /\ epoch' = epoch + 1
    /\ trigger' = [op |-> "onFilteredChange", request |-> 0, filters |-> filters,
                     page |-> 0, pageSize |-> 0]
    /\ UNCHANGED <<updateHandler, requests, mounted, merges>>

\* the page of n records the History API returns to request i
Page(i, n) == [k \in 1..n |-> [request |-> i, index |-> k]]

\* the .then callback with atEnd taken from an empty page instead of the cursor
thenUpdateEndOnEmptyPage(data) ==
    setState([ loading        |-> FALSE,
               atEnd          |-> data.history = <<>>,
               cursor         |-> data.cursor,
               history        |-> state.history \o data.history,
               filtersChanged |-> FALSE ])

\* the .then callback of fetchQueries
thenUpdate(data) ==
    setState([ loading        |-> FALSE,
               atEnd          |-> data.cursor = null,
               cursor         |-> data.cursor,
               history        |-> state.history \o data.history,
               filtersChanged |-> FALSE ])

\* api.getHistory of request i resolves with data
Resolve(i, data) ==
    /\ i \in Pending
    /\ IF requests[i].hasCanceled
       THEN /\ requests' = [requests EXCEPT ![i].status = "canceled"]
            /\ UNCHANGED <<state, merges>>
       ELSE /\ requests' = [requests EXCEPT ![i].status = "resolved", ![i].data = data]
            /\ state' = thenUpdate(data)
            /\ merges' = IF mounted
                          THEN Append(merges, [request |-> i, epoch |-> epoch])
                          ELSE merges
    /\ trigger' = [op |-> "resolve", request |-> i, filters |-> <<>>,
                     page |-> 0, pageSize |-> 0]
    /\ UNCHANGED <<updateHandler, mounted, epoch>>

\* api.getHistory of request i rejects with a transport error: the .then
\* callback is skipped and .catch(ignoreCancel) does not touch the component
Reject(i) ==
    /\ i \in Pending
    /\ requests' = [requests EXCEPT ![i].status =
                        IF requests[i].hasCanceled THEN "canceled" ELSE "rejected"]
    /\ trigger' = [op |-> "reject", request |-> i, filters |-> <<>>,
                     page |-> 0, pageSize |-> 0]
    /\ UNCHANGED <<state, updateHandler, mounted, epoch, merges>>

componentWillUnmount ==
    /\ mounted
    /\ mounted' = FALSE
    /\ requests' = IF updateHandler # 0
                   THEN [requests EXCEPT ![updateHandler] = cancel(requests[updateHandler])]
                   ELSE requests
    /\ trigger' = [op |-> "componentWillUnmount", request |-> 0, filters |-> <<>>,
                     page |-> 0, pageSize |-> 0]
    /\ UNCHANGED <<state, updateHandler, epoch, merges>>

\* a call of fetchQueries that keeps the History API calls within max
Within(max, page, pageSize) ==
    fetchQueriesReturnsEarly(page, pageSize) \/ Len(requests) < max

Next ==
    /\ \/ \E page \in 0..MaxPage, pageSize \in 1..MaxPageSize :
             Within(MaxRequests, page, pageSize) /\ fetchQueries(page, pageSize)
       \/ \E filters \in FilterLists : onFilteredChange(filters)
       \/ \E i \in 1..MaxRequests, n \in 0..MaxPageLen :
             \E c \in Cursors(i) : Resolve(i, [history |-> Page(i, n), cursor |-> c])
       \/ \E i \in 1..MaxRequests : Reject(i)
       \/ componentWillUnmount
    /\ UNCHANGED <<timers, bursts>>

Spec == Init /\ [][Next]_vars

(***************************************************************************)
(* parseFilters on its own: the table hands over any filter list, and the  *)
(* requestPage that follows sends its translation to the History API.      *)
(***************************************************************************)
\* the values of a time filter: a { start, end } pair of instants
TimeValues == {Today, [start |-> 1500, end |-> 2999]}

\* the filter entries the table can hand over, one unrecognized id included
FilterEntries ==
    { [id |-> "time", value |-> v] : v \in TimeValues }
    \cup { [id |-> "queryType", value |-> v] : v \in {"all", "0", "2", "6"} }
    \cup { [id |-> "domain", value |-> v] : v \in {"", "a.com"} }
    \cup { [id |-> "client", value |-> v] : v \in {"", "10.0.0.2"} }
    \cup { [id |-> "status", value |-> v] : v \in {"all", "allowed", "blocked", "4", "42"} }
    \cup { [id |-> "dnssec", value |-> v] : v \in {"all", "1"} }
    \cup { [id |-> "reply", value |-> v] : v \in {"all", "3"} }
    \cup { [id |-> "action", value |-> v] : v \in {"all", "x"} }

\* the filter lists of at most MaxFilters entries
TableFilters == UNION { [1..n -> FilterEntries] : n \in 0..MaxFilters }

\* the component right after its first filter change, to any filter list
InitParse ==
    /\ \E filters \in TableFilters :
          /\ state = [ history        |-> <<>>,
                       cursor         |-> null,
                       loading        |-> FALSE,
                       atEnd          |-> FALSE,
                       filtersChanged |-> TRUE,
                       filters        |-> filters ]
          /\ trigger = [op |-> "onFilteredChange", request |-> 0, filters |-> filters,
                          page |-> 0, pageSize |-> 0]
    /\ updateHandler = 0
    /\ requests = <<>>
    /\ mounted = TRUE
    /\ epoch = 1
    /\ merges = <<>>
    /\ timers = NoTimers
    /\ bursts = NoBursts

NextParse ==
    /\ \E page \in 0..MaxPage, pageSize \in 1..MaxPageSize :
          Within(MaxRequests, page, pageSize) /\ fetchQueries(page, pageSize)
    /\ UNCHANGED <<timers, bursts>>

SpecParse == InitParse /\ [][NextParse]_vars

(***************************************************************************)
(* The prefetch scenario: the table keeps calling requestPage for one page *)
(* and one page size, and the History API answers every request with a     *)
(* full page of that size and a continuation cursor.                       *)
(***************************************************************************)
PrefetchPageSize == MaxPageLen

NextPrefetch ==
    /\ \/ /\ Within(MaxPrefetchRequests, PrefetchPage, PrefetchPageSize)
          /\ fetchQueries(PrefetchPage, PrefetchPageSize)
       \/ \E filters \in FilterLists : onFilteredChange(filters)
       \/ \E i \in 1..MaxPrefetchRequests :
             Resolve(i, [history |-> Page(i, PrefetchPageSize), cursor |-> CursorNames[i]])
    /\ UNCHANGED <<timers, bursts>>

SpecPrefetch == Init /\ [][NextPrefetch]_vars

(***************************************************************************)
(* The debounced props.  render() wraps fetchQueries and the filter reset  *)
(* in debounce(...) and hands the wrappers to the table as onFetchData and *)
(* onFilteredChange.  A wrapper keeps the arguments of its latest          *)
(* invocation and a timer that every invocation restarts; when the timer   *)
(* expires the wrapped function runs once with those arguments.  render()  *)
(* runs again after every setState and builds two new wrappers; the table  *)
(* invokes the wrappers of the latest render, and a timer of an earlier    *)
(* wrapper still expires.                                                  *)
(*                                                                         *)
(* timers[prop] lists the pending timers of prop, oldest first; at most    *)
(* the last one belongs to a wrapper of the latest render (current).       *)
(***************************************************************************)
Props == {"onFetchData", "onFilteredChange"}

\* render(): the wrappers that hold the pending timers are replaced
render(pending) ==
    [ prop \in Props |->
        [ k \in 1..Len(pending[prop]) |-> [pending[prop][k] EXCEPT !.current = FALSE] ] ]

\* the table invokes this.props[prop](args)
debounce(prop, args) ==
    LET pending == timers[prop]
        n       == Len(pending)
    IN  /\ mounted
        /\ timers' = [timers EXCEPT ![prop] =
                         IF n > 0 /\ pending[n].current
                         THEN [pending EXCEPT ![n].args = args]
                         ELSE Append(pending, [args |-> args, current |-> TRUE])]
        /\ bursts' = [bursts EXCEPT ![prop] =
                         IF n = 0
                         THEN [runs |-> 0, invoked |-> args, ran |-> <<>>]
                         ELSE [@ EXCEPT !.invoked = args]]
        /\ UNCHANGED <<state, updateHandler, requests, mounted, epoch, merges, trigger>>

\* the oldest timer of onFetchData expires: fetchQueries runs
onFetchData ==
    /\ timers.onFetchData # <<>>
    /\ LET args == Head(timers.onFetchData).args
           rest == [timers EXCEPT !.onFetchData = Tail(@)]
       IN  /\ Within(MaxRequests, args[1], args[2])
           /\ fetchQueries(args[1], args[2])
           /\ timers' = IF fetchQueriesReturnsEarly(args[1], args[2])
                         THEN rest
                         ELSE render(rest)
           /\ bursts' = [bursts EXCEPT !.onFetchData.runs = @ + 1,
                                       !.onFetchData.ran = args]

\* the oldest timer of onFilteredChange expires: the filter reset runs
onFilteredChangeTimer ==
    /\ timers.onFilteredChange # <<>>
    /\ LET args == Head(timers.onFilteredChange).args
       IN  /\ onFilteredChange(args)
           /\ timers' = render([timers EXCEPT !.onFilteredChange = Tail(@)])
           /\ bursts' = [bursts EXCEPT !.onFilteredChange.runs = @ + 1,
                                       !.onFilteredChange.ran = args]

\* a response arrives: the then callback runs setState and the view renders
Response(i, data) ==
    /\ Resolve(i, data)
    /\ timers' = IF requests[i].hasCanceled THEN timers ELSE render(timers)
    /\ UNCHANGED bursts

\* an invocation of prop restarts a timer, or the timers of prop are within max
Restarts(max, prop) ==
    \/ Len(timers[prop]) < max
    \/ Len(timers[prop]) > 0 /\ timers[prop][Len(timers[prop])].current

NextDebounce ==
    \/ \E page \in 0..MaxPage, pageSize \in 1..MaxPageSize :
          Restarts(MaxTimers, "onFetchData") /\ debounce("onFetchData", <<page, pageSize>>)
    \/ \E filters \in FilterLists :
          Restarts(MaxTimers, "onFilteredChange") /\ debounce("onFilteredChange", filters)
    \/ onFetchData
    \/ onFilteredChangeTimer
    \/ \E i \in 1..MaxRequests :
          Response(i, [history |-> Page(i, MaxPageLen), cursor |-> CursorNames[i]])

SpecDebounce == Init /\ [][NextDebounce]_vars

(***************************************************************************)
(* Properties of the pagination controller.                                *)
(***************************************************************************)
\* the requests that are outstanding: issued, not completed, not cancelled
Outstanding == { i \in Pending : ~requests[i].hasCanceled }

\* request i has been merged into the state
Merged(i) == \E k \in 1..Len(merges) : merges[k].request = i

\* C1: records holds only records returned by requests issued after the most
\* recent filter change, never those of a request of an earlier filter epoch.
C1_StaleResponseIgnored ==
    \A k \in 1..Len(state.history) :
        requests[state.history[k].request].epoch = epoch

\* C2: at most one History API request is outstanding in every reachable state.
C2_AtMostOneInFlight == Cardinality(Outstanding) <= 1

\* C3: after teardown every request that is still outstanding has been
\* cancelled, so that no completion acts on the state.
C3_TeardownCancelsAll ==
    ~mounted => \A i \in Pending : requests[i].hasCanceled

\* C4: when a request fails with a genuine error, loading is false again (and
\* atEnd, cursor and records are as before), so that requestPage can retry.
C4_FailureResetsLoading ==
    (mounted /\ trigger.op = "reject" /\ requests[trigger.request].status = "rejected")
        => ~state.loading

\* a response with cursor = null has been merged since the last filter change
EndMerged ==
    \E k \in 1..Len(merges) :
        /\ merges[k].epoch = epoch
        /\ requests[merges[k].request].data.cursor = null

\* request i was issued after a response with cursor = null had been merged
\* in its filter epoch
IssuedAfterEnd(i) ==
    \E k \in 1..requests[i].merged :
        /\ merges[k].epoch = requests[i].epoch
        /\ requests[merges[k].request].data.cursor = null

\* C5: once a response with cursor = null has been merged, atEnd is true and
\* no requestPage, for any page and pageSize, issues a History API call until
\* the next filter change.
C5_Termination ==
    /\ (mounted /\ EndMerged) =>
          /\ state.atEnd
          /\ \A page \in 0..MaxPage, pageSize \in 1..MaxPageSize :
                fetchQueriesReturnsEarly(page, pageSize)
    /\ \A i \in 1..Len(requests) : ~IssuedAfterEnd(i)

\* the pages returned to the merged requests of the current filter epoch,
\* concatenated in the order the requests were issued
RECURSIVE EpochPages(_)
EpochPages(n) ==
    IF n = 0 THEN <<>>
    ELSE EpochPages(n - 1) \o
         (IF requests[n].epoch = epoch /\ Merged(n) THEN requests[n].data.history
          ELSE <<>>)

\* C6: records is the concatenation, in the order the requests were issued,
\* of the pages returned to the successful fetches of the current filter epoch.
C6_RecordsAreEpochPages == state.history = EpochPages(Len(requests))

\* C7: loading = true implies that exactly one request is outstanding.
C7_LoadingMeansOneInFlight ==
    (mounted /\ state.loading) => Cardinality(Outstanding) = 1

\* C8: atEnd = true implies cursor = null, in every reachable state.
C8_AtEndImpliesNullCursor == state.atEnd => state.cursor = null

\* a response with cursor = null has just been merged
C8_Witness ==
    /\ trigger.op = "resolve"
    /\ Merged(trigger.request)
    /\ state.atEnd
    /\ Len(state.history) > 0

\* C9: a requestPage made while loading = true issues no History API call
\* and leaves the controller state unchanged.
C9_IdempotentWhileLoading ==
    [][(trigger'.op = "fetchQueries" /\ state.loading) =>
          (requests' = requests /\ state' = state /\ updateHandler' = updateHandler)]_vars

\* requestPage was called twice or more in a row, nothing else has happened:
\* the first call issued the only request, the last one returned early
C9_Witness ==
    /\ trigger.op = "fetchQueries"
    /\ trigger.request = 0
    /\ epoch = 0
    /\ mounted
    /\ state.loading
    /\ Len(requests) = 1
    /\ requests[1].status = "pending"

\* request i is the first one issued in its filter epoch
FirstOfEpoch(i) == \A j \in 1..(i - 1) : requests[j].epoch # requests[i].epoch

\* the merges, made before request i was issued, of responses to requests of
\* the filter epoch of request i
MergedBefore(i) ==
    { k \in 1..requests[i].merged :
        requests[merges[k].request].epoch = requests[i].epoch }

\* the largest element of a non-empty set of numbers
Max(S) == CHOOSE x \in S : \A y \in S : y <= x

\* C10: a request carries cursor = null if it is the first of its filter
\* epoch, and otherwise the non-null cursor of the most recently merged
\* response to a request of the same filter epoch.
C10_CursorContract ==
    \A i \in 1..Len(requests) :
        IF FirstOfEpoch(i)
        THEN requests[i].query["cursor"] = null
        ELSE /\ MergedBefore(i) # {}
             /\ requests[i].query["cursor"] # null
             /\ requests[i].query["cursor"] =
                   requests[merges[Max(MergedBefore(i))].request].data.cursor

\* C11: a filter change replaces the filters with the list it is handed and
\* sets filtersChanged = true, cursor = null, atEnd = false, loading = false
\* and history = empty, whatever the state it fires in.
C11_FilterChangeResets ==
    [][trigger'.op = "onFilteredChange" =>
          state' = [ filters        |-> trigger'.filters,
                     filtersChanged |-> TRUE,
                     cursor         |-> null,
                     atEnd          |-> FALSE,
                     loading        |-> FALSE,
                     history        |-> <<>> ]]_vars

\* a filter change has just fired with a fetch outstanding and a new list
C11_Witness ==
    /\ trigger.op = "onFilteredChange"
    /\ Outstanding # {}
    /\ state.filters # InitialFilters
    /\ state.filters = trigger.filters
    /\ ~state.loading

\* C12: from every state before teardown, a filter change followed by a
\* requestPage issues a new History API call, with cursor = null and the
\* translation of the new filters.
C12_Recoverable ==
    [][(trigger.op = "onFilteredChange" /\ trigger'.op = "fetchQueries") =>
          /\ trigger'.request = Len(requests) + 1
          /\ Len(requests') = Len(requests) + 1
          /\ requests'[trigger'.request].status = "pending"
          /\ requests'[trigger'.request].query =
                parseFilters(trigger.filters) @@ ("cursor" :> null)]_vars

\* a fetch failed, then the filters were changed and requestPage issued a
\* new call
C12_Witness ==
    /\ Len(requests) = 2
    /\ requests[1].status = "rejected"
    /\ trigger.op = "fetchQueries"
    /\ trigger.request = 2
    /\ requests[2].query["cursor"] = null
    /\ state.filters # InitialFilters
    /\ state.loading

\* C17: requestPage(page, pageSize) issues exactly one History API call,
\* with the current cursor and the translation of the current filters, and
\* sets loading = true, if and only if atEnd = false, loading = false and
\* (filtersChanged or records.length < (page + 2) * pageSize); otherwise it
\* issues no call and leaves the state unchanged.
C17_DecisionRule ==
    [][trigger'.op = "fetchQueries" =>
          IF /\ ~state.atEnd
             /\ ~state.loading
             /\ \/ state.filtersChanged
                \/ Len(state.history) < (trigger'.page + 2) * trigger'.pageSize
          THEN /\ Len(requests') = Len(requests) + 1
               /\ SubSeq(requests', 1, Len(requests)) = requests
               /\ trigger'.request = Len(requests')
               /\ requests'[Len(requests')].status = "pending"
               /\ requests'[Len(requests')].query =
                     parseFilters(state.filters) @@ ("cursor" :> state.cursor)
               /\ state' = [state EXCEPT !.loading = TRUE]
          ELSE /\ requests' = requests
               /\ state' = state
               /\ updateHandler' = updateHandler]_vars

\* two pages have been merged, and a requestPage found exactly
\* (page + 2) * pageSize records and returned without a call
C17_Witness ==
    /\ trigger.op = "fetchQueries"
    /\ trigger.request = 0
    /\ ~state.atEnd /\ ~state.loading /\ ~state.filtersChanged
    /\ Len(merges) = 2
    /\ Len(state.history) = (trigger.page + 2) * trigger.pageSize

\* the History API calls issued in the current filter epoch
EpochCalls == { i \in 1..Len(requests) : requests[i].epoch = epoch }

EpochResponseMerged ==
    \E k \in 1..Len(merges) :
        merges[k].epoch = epoch /\ requests[merges[k].request].epoch = epoch

\* C19: after a filter change filtersChanged stays true until a response to
\* a request issued after that filter change has been merged; the completion
\* of a request issued before it never sets filtersChanged to false.
C19_DirtyUntilEpochResponse ==
    (epoch > 0 /\ ~EpochResponseMerged) => state.filtersChanged

\* C20: for each of the two debounced props, a burst of invocations (every
\* invocation arriving while a call of the prop is still pending) runs the
\* wrapped function exactly once, with the arguments of the last invocation,
\* also when the view renders between the invocations of the burst.
C20_BurstRunsOnce ==
    \A prop \in Props :
        /\ bursts[prop].runs <= 1
        /\ (bursts[prop].runs = 1 /\ timers[prop] = <<>>)
              => bursts[prop].ran = bursts[prop].invoked

(***************************************************************************)
(* Properties of parseFilters, under SpecParse.                            *)
(***************************************************************************)
\* the translation the first request carries: its query without the cursor
Translated ==
    [k \in DOMAIN requests[1].query \ {"cursor"} |-> requests[1].query[k]]

\* the positions of the entries of the filter list with the given id
EntriesOf(id) == { i \in 1..Len(state.filters) : state.filters[i].id = id }

\* the filter list without its entry at position i
Remove(tableFilters, i) ==
    SubSeq(tableFilters, 1, i - 1) \o SubSeq(tableFilters, i + 1, Len(tableFilters))

\* C13: with a single status entry, "all" emits neither blocked nor status,
\* "allowed" emits blocked = false, "blocked" emits blocked = true, and any
\* other value v emits status = v; blocked and status never both.
C13_StatusRule ==
    (requests # <<>> /\ Cardinality(EntriesOf("status")) = 1) =>
        LET v == state.filters[CHOOSE i \in EntriesOf("status") : TRUE].value
            keys == DOMAIN Translated
        IN  CASE v = "all" -> "blocked" \notin keys /\ "status" \notin keys
              [] v = "allowed" ->
                    /\ "blocked" \in keys /\ Translated["blocked"] = FALSE
                    /\ "status" \notin keys
              [] v = "blocked" ->
                    /\ "blocked" \in keys /\ Translated["blocked"] = TRUE
                    /\ "status" \notin keys
              [] OTHER ->
                    /\ "status" \in keys /\ Translated["status"] = v
                    /\ "blocked" \notin keys

\* a lone status entry with a raw status code has been translated
C13_Witness ==
    /\ requests # <<>>
    /\ state.filters = << [id |-> "status", value |-> "42"] >>
    /\ Translated = [status |-> "42"]

\* the filter ids parseFilters has a case for
KnownIds == {"time", "queryType", "domain", "client", "status", "dnssec", "reply"}

\* C14: an entry with an unrecognized id is ignored: the translation of a
\* list that holds one, at any position, is that of the list without it.
C14_UnknownIdIgnored ==
    requests # <<>> =>
        \A i \in 1..Len(state.filters) :
            state.filters[i].id \notin KnownIds =>
                Translated = parseFilters(Remove(state.filters, i))

\* a list that starts with an unrecognized entry has been translated
C14_Witness ==
    /\ requests # <<>>
    /\ state.filters = << [id |-> "action", value |-> "x"],
                          [id |-> "domain", value |-> "a.com"] >>
    /\ Translated = [domain |-> "a.com"]

\* C15: a queryType entry with value "all" emits no query_type key; one
\* whose value is the decimal string of the index n emits query_type = n + 1.
C15_QueryTypeRule ==
    (requests # <<>> /\ Cardinality(EntriesOf("queryType")) = 1) =>
        LET v == state.filters[CHOOSE i \in EntriesOf("queryType") : TRUE].value
        IN  /\ v = "all" => "query_type" \notin DOMAIN Translated
            /\ \A n \in 0..(Len(DecimalStrings) - 1) :
                  v = DecimalStrings[n + 1] =>
                      /\ "query_type" \in DOMAIN Translated
                      /\ Translated["query_type"] = n + 1

\* the queryType entry "2" has been translated to query_type = 3
C15_Witness ==
    /\ requests # <<>>
    /\ state.filters = << [id |-> "queryType", value |-> "2"] >>
    /\ Translated = [query_type |-> 3]

\* C16: of two entries with the same id the later one overrides the earlier
\* one: the translation is that of the list without the earlier entry.
C16_LaterEntryOverrides ==
    requests # <<>> =>
        \A i, j \in 1..Len(state.filters) :
            (i < j /\ state.filters[i].id = state.filters[j].id) =>
                Translated = parseFilters(Remove(state.filters, i))

\* the orders (permutations) of the positions 1..n
Orders(n) ==
    { p \in [1..n -> 1..n] : \A i, j \in 1..n : p[i] = p[j] => i = j }

\* the filter list with its entries in the order p
Permuted(tableFilters, p) ==
    [ i \in 1..Len(tableFilters) |-> tableFilters[p[i]] ]

\* the filter list holds at most one entry per id
OneEntryPerId ==
    \A i, j \in 1..Len(state.filters) :
        state.filters[i].id = state.filters[j].id => i = j

\* C21: parseFilters does not depend on the order of a filter list with at
\* most one entry per id: every permutation of the list translates to the
\* same mapping (same keys, same values).
C21_OrderIndependent ==
    (requests # <<>> /\ OneEntryPerId) =>
        \A p \in Orders(Len(state.filters)) :
            parseFilters(Permuted(state.filters, p)) = Translated

\* a list of two entries with different ids has been translated, and its
\* reversal translates to the same mapping
C21_Witness ==
    /\ requests # <<>>
    /\ state.filters = << [id |-> "domain", value |-> "a.com"],
                          [id |-> "client", value |-> "10.0.0.2"] >>
    /\ Translated = [domain |-> "a.com", client |-> "10.0.0.2"]
    /\ parseFilters(<< state.filters[2], state.filters[1] >>) = Translated

====
